---------------------------- MODULE Spec2Model ----------------------------
(***************************************************************************)
(* qBitrr/main.py: the supervising process of qBitrr.                      *)
(*                                                                         *)
(* The module models                                                       *)
(*   - run() (the entry point), qBitManager.__init__ with its version      *)
(*     fetch and _version_validator, get_child_processes, qBitManager.run  *)
(*     and the atexit hook cleanup()            -> specification Spec      *)
(*   - the property qBitManager.is_alive and the ExpiringSet it consults   *)
(*                                              -> specification ProbeSpec *)
(*                                                                         *)
(* Python facts the model relies on:                                       *)
(*   - sys.exit(n) raises SystemExit, a BaseException that is not an       *)
(*     Exception; KeyboardInterrupt is a BaseException, not an Exception.  *)
(*   - atexit handlers run when the interpreter finalises: after a normal  *)
(*     return of the main module, after SystemExit, after an uncaught      *)
(*     exception and after an uncaught KeyboardInterrupt.  An exception    *)
(*     raised inside a handler is printed and ends that handler only.      *)
(*   - pathos.helpers.mp.Process (multiprocess.Process): kill() and        *)
(*     terminate() dereference the handle's _popen, which is None until    *)
(*     start() has run, so both raise AttributeError on a handle that was  *)
(*     never started; on a started handle they are harmless whether the    *)
(*     worker still runs or has already exited.                            *)
(***************************************************************************)
EXTENDS Integers, Sequences, FiniteSets, TLC

----------------------------------------------------------------------------
(* Bounds of the model *)

\* largest number a component of a reported release can take
MaxComponent == 4
\* longest reported release, in components ("4.3.4" has three)
MaxReleaseLen == 3
\* most managed categories ArrManager builds
MaxCategories == 2
\* most worker handles one category fans out into
MaxPerCategory == 2
\* most worker handles over all categories
MaxHandles == 3
\* the clock stops at this many seconds
MaxTime == 16
\* most control-API calls is_alive issues
MaxCalls == 3
\* most invocations of cleanup() in a row
MaxHookRuns == 2

----------------------------------------------------------------------------
(* Versions: packaging.version.Version restricted to its release segment *)

\* qBitManager.min_supported_version = VersionClass("4.3.4")
min_supported_version == <<4, 3, 4>>
\* qBitManager.max_supported_version = VersionClass("4.4")
max_supported_version == <<4, 4>>

\* every release the backend can report within the bounds
Releases == UNION {[1..n -> 0..MaxComponent] : n \in 1..MaxReleaseLen}

\* packaging compares releases with their trailing zeros stripped: 4.4.0 == 4.4
RECURSIVE StripTrailingZeros(_)
StripTrailingZeros(r) ==
    IF r = <<>> THEN r
    ELSE IF r[Len(r)] = 0 THEN StripTrailingZeros(SubSeq(r, 1, Len(r) - 1))
    ELSE r

\* lexicographic a <= b on tuples of numbers, a proper prefix being smaller
RECURSIVE TupleLE(_, _)
TupleLE(a, b) ==
    IF a = <<>> THEN TRUE
    ELSE IF b = <<>> THEN FALSE
    ELSE IF a[1] < b[1] THEN TRUE
    ELSE IF a[1] > b[1] THEN FALSE
    ELSE TupleLE(Tail(a), Tail(b))

\* Version.__le__
VersionLE(a, b) == TupleLE(StripTrailingZeros(a), StripTrailingZeros(b))

\* mutant of InSupportedRange: the upper end of the range excluded
InSupportedRangeExclusive(v) ==
    VersionLE(min_supported_version, v) /\ VersionLE(v, max_supported_version)
    /\ ~VersionLE(max_supported_version, v)

\* the condition of _version_validator (line 83)
InSupportedRange(v) ==
    VersionLE(min_supported_version, v) /\ VersionLE(v, max_supported_version)

----------------------------------------------------------------------------
(* State *)

VARIABLES
    \* the supervising process
    pc,                     \* where the supervising process is
    exit_status,            \* <<>> while it runs, <<n>> once it exits with status n
    exit_cause,             \* which exit path was taken
    interrupt_phase,        \* the phase a KeyboardInterrupt arrived in, or "none"
    failure_phase,          \* the phase an unexpected exception was raised in, or "none"
    \* qBitManager
    fetch_outcome,          \* "pending", "ok" or "failed": client.app_version() and its parse
    current_qbit_version,   \* self.current_qbit_version (<<>> before it is set)
    validated_version,      \* self._validated_version
    gate_branch,            \* the branch _version_validator took
    graced,                 \* the time.sleep(10) of the non-validated branch has returned
    ffprobe_outcome,        \* "pending", "ok" or "failed": ffprobe_downloader.update()
    managed_objects,        \* arr_manager.managed_objects: handles each category spawns
    agg,                    \* get_child_processes: the category the loop is at
    procs,                  \* get_child_processes: the local list procs
    child_processes,        \* self.child_processes
    CHILD_PROCESSES,        \* the module-level registry
    registry_assigned,      \* line 163 has assigned CHILD_PROCESSES
    idx,                    \* qBitManager.run: position of the start and join loops
    \* worker handles
    handles,                \* handle -> "absent", "created", "running", "killed", or
                            \* "exited" (status 0) / "crashed" (another status)
    start_log,              \* handles in the order start() succeeded on them
    join_log,               \* handles in the order join() returned on them
    signal_log,             \* <<"kill" | "terminate", handle>> in the order issued
    hook_runs,              \* outcomes of the invocations of cleanup()
    \* liveness probe
    now,                    \* time.time(), in seconds
    expiring_bool,          \* self.expiring_bool: key -> expiry time
    should_delay_torrent_scan,
    backend,                \* what client.app_version() meets: "up", "down", "faulty"
    net_calls,              \* control-API calls issued by is_alive
    last,                   \* the last evaluation of is_alive
    last_success,           \* <<t>>: is_alive's latest successful call was at t
    down_since              \* <<s>>: the backend has not been "up" since s

supervisor_vars ==
    <<pc, exit_status, exit_cause, interrupt_phase, failure_phase, fetch_outcome,
      current_qbit_version, validated_version, gate_branch, graced, ffprobe_outcome,
      managed_objects, agg, procs, child_processes, CHILD_PROCESSES,
      registry_assigned, idx>>

handle_vars == <<handles, start_log, join_log, signal_log, hook_runs>>

probe_vars ==
    <<now, expiring_bool, should_delay_torrent_scan, backend, net_calls, last,
      last_success, down_since>>

vars == <<supervisor_vars, handle_vars, probe_vars>>

HandleIds == 1..MaxHandles

Range(s) == {s[i] : i \in 1..Len(s)}

RECURSIVE Sum(_)
Sum(s) == IF s = <<>> THEN 0 ELSE s[1] + Sum(Tail(s))

\* the configurations ArrManager can build: per category, how many handles it spawns
Configurations ==
    {c \in UNION {[1..n -> 0..MaxPerCategory] : n \in 0..MaxCategories} :
        Sum(c) <= MaxHandles}

\* an ExpiringSet with no entry
EmptyExpiringSet == [k \in {} |-> 0]

\* last, before is_alive was ever evaluated
NoEvaluation ==
    [ret |-> "none", at |-> 0, met |-> "up", cache_before |-> EmptyExpiringSet,
     delay_before |-> FALSE, calls_before |-> 0, success_before |-> <<>>,
     down_before |-> <<>>]

\* the module is imported: CHILD_PROCESSES = [] (line 23), cleanup registered (line 180)
Init ==
    /\ pc = "process_flags"
    /\ exit_status = <<>>
    /\ exit_cause = "none"
    /\ interrupt_phase = "none"
    /\ failure_phase = "none"
    /\ fetch_outcome = "pending"
    /\ current_qbit_version = <<>>
    /\ validated_version = FALSE
    /\ gate_branch = "none"
    /\ graced = FALSE
    /\ ffprobe_outcome = "pending"
    /\ managed_objects = <<>>
    /\ agg = 1
    /\ procs = <<>>
    /\ child_processes = <<>>
    /\ CHILD_PROCESSES = <<>>
    /\ registry_assigned = FALSE
    /\ idx = 1
    /\ handles = [h \in HandleIds |-> "absent"]
    /\ start_log = <<>>
    /\ join_log = <<>>
    /\ signal_log = <<>>
    /\ hook_runs = <<>>
    /\ now = 0
    /\ expiring_bool = EmptyExpiringSet
    /\ should_delay_torrent_scan = FALSE
    /\ backend = "up"
    /\ net_calls = 0
    /\ last = NoEvaluation
    /\ last_success = <<>>
    /\ down_since = <<>>

----------------------------------------------------------------------------
(* How the interpreter leaves the main module *)

\* the statuses an uncaught KeyboardInterrupt ends the interpreter with: 1 before
\* Python 3.8, death by SIGINT (seen as 130 by a shell) from 3.8 on
UncaughtInterruptStatuses == {1, 130}

\* sys.exit(status), or the end of the main module (status 0), or an uncaught
\* exception (status 1): the interpreter finalises and the atexit hook is next
Leave(status, cause) ==
    /\ pc' = "atexit"
    /\ exit_status' = <<status>>
    /\ exit_cause' = cause

\* a KeyboardInterrupt no handler catches
LeaveInterrupted(phase) ==
    /\ interrupt_phase = "none"
    /\ interrupt_phase' = phase
    /\ \E status \in UncaughtInterruptStatuses : Leave(status, "uncaught_interrupt")


exit_vars == <<exit_status, exit_cause>>

manager_vars ==
    <<fetch_outcome, current_qbit_version, validated_version, gate_branch, graced,
      ffprobe_outcome, managed_objects>>

loop_vars == <<agg, procs, child_processes, CHILD_PROCESSES, registry_assigned, idx>>

----------------------------------------------------------------------------
(* Worker handles: pathos.helpers.mp.Process *)

\* kill() and terminate() raise AttributeError on a handle start() never ran on
NeverStarted(hs, h) == hs[h] \in {"absent", "created"}

\* kill() or terminate() on a started handle: a running worker is stopped, one that
\* has ended (or was stopped before) is left as it is
Stop(hs, h) == [hs EXCEPT ![h] = IF @ = "running" THEN "killed" ELSE @]

\* the loop of run()'s handler (lines 170-171), from position i:
\* for child in manager.child_processes: child.kill()
RECURSIVE KillEach(_, _, _)
KillEach(list, i, st) ==
    IF i > Len(list) THEN st
    ELSE IF NeverStarted(st.handles, list[i]) THEN [st EXCEPT !.raised = TRUE]
    ELSE KillEach(list, i + 1,
                  [st EXCEPT !.handles = Stop(@, list[i]),
                             !.log = Append(@, <<"kill", list[i]>>)])

\* mutant of CleanupEach: kill() also raises on a handle that is already stopped
RECURSIVE CleanupEachRunningOnly(_, _, _)
CleanupEachRunningOnly(list, i, st) ==
    IF i > Len(list) THEN st
    ELSE IF st.handles[list[i]] # "running" THEN [st EXCEPT !.raised = TRUE]
    ELSE CleanupEachRunningOnly(list, i + 1,
                     [st EXCEPT !.handles = Stop(Stop(@, list[i]), list[i]),
                                !.log = @ \o << <<"kill", list[i]>>,
                                                <<"terminate", list[i]>> >>])

\* the loop of cleanup() (lines 175-177), from position i:
\* for p in CHILD_PROCESSES: p.kill(); p.terminate()
RECURSIVE CleanupEach(_, _, _)
CleanupEach(list, i, st) ==
    IF i > Len(list) THEN st
    ELSE IF NeverStarted(st.handles, list[i]) THEN [st EXCEPT !.raised = TRUE]
    ELSE CleanupEach(list, i + 1,
                     [st EXCEPT !.handles = Stop(Stop(@, list[i]), list[i]),
                                !.log = @ \o << <<"kill", list[i]>>,
                                                <<"terminate", list[i]>> >>])

----------------------------------------------------------------------------
(* run(), lines 154-161, with qBitManager.__init__ *)

\* lines 156-158: early_exit = process_flags(); sys.exit(0) when it is True
ProcessFlags ==
    /\ pc = "process_flags"
    /\ \E early_exit \in BOOLEAN :
          IF early_exit THEN Leave(0, "early_exit")
          ELSE pc' = "fetch_version" /\ UNCHANGED exit_vars
    /\ UNCHANGED <<interrupt_phase, failure_phase, manager_vars, loop_vars,
                   handle_vars, probe_vars>>

\* mutant of FetchFallback: the fallback marked as validated
FetchFallbackValidated == [version |-> min_supported_version, validated |-> TRUE]

\* lines 60-65: what the except BaseException branch leaves
FetchFallback == [version |-> min_supported_version, validated |-> FALSE]

\* lines 57-65.  version_parser.parse keeps the release as written; the comparisons
\* (VersionLE) are what normalise it.  The handler catches BaseException, so a
\* KeyboardInterrupt that arrives during the call is swallowed like any failure.
FetchVersion ==
    /\ pc = "fetch_version"
    /\ \/ \E r \in Releases :
             /\ current_qbit_version' = r
             /\ validated_version' = TRUE
             /\ fetch_outcome' = "ok"
             /\ UNCHANGED interrupt_phase
       \/ /\ current_qbit_version' = FetchFallback.version
          /\ validated_version' = FetchFallback.validated
          /\ fetch_outcome' = "failed"
          /\ \/ UNCHANGED interrupt_phase
             \/ interrupt_phase = "none" /\ interrupt_phase' = "fetch_version"
    /\ pc' = "version_validator"
    /\ UNCHANGED <<exit_vars, failure_phase, gate_branch, graced, ffprobe_outcome,
                   managed_objects, loop_vars, handle_vars, probe_vars>>

\* mutant of VersionValidator: the fatal branch logs and does not exit
VersionValidatorNoExit ==
    /\ pc = "version_validator"
    /\ IF InSupportedRange(current_qbit_version)
       THEN IF validated_version
            THEN gate_branch' = "supported" /\ pc' = "construct"
            ELSE gate_branch' = "assumed" /\ pc' = "grace_sleep"
       ELSE gate_branch' = "fatal" /\ pc' = "construct"
    /\ UNCHANGED <<exit_vars, interrupt_phase, failure_phase, fetch_outcome,
                   current_qbit_version, validated_version, graced, ffprobe_outcome,
                   managed_objects, loop_vars, handle_vars, probe_vars>>

\* lines 82-103: _version_validator
VersionValidator ==
    /\ pc = "version_validator"
    /\ IF InSupportedRange(current_qbit_version)
       THEN IF validated_version
            THEN gate_branch' = "supported" /\ pc' = "construct" /\ UNCHANGED exit_vars
            ELSE gate_branch' = "assumed" /\ pc' = "grace_sleep" /\ UNCHANGED exit_vars
       ELSE gate_branch' = "fatal" /\ Leave(1, "version_gate")
    /\ UNCHANGED <<interrupt_phase, failure_phase, fetch_outcome, current_qbit_version,
                   validated_version, graced, ffprobe_outcome, managed_objects,
                   loop_vars, handle_vars, probe_vars>>

\* line 94: time.sleep(10) returns, or a KeyboardInterrupt ends it (no handler: the
\* constructor is called outside run()'s try)
GraceSleep ==
    /\ pc = "grace_sleep"
    /\ \/ /\ graced' = TRUE
          /\ pc' = "construct"
          /\ UNCHANGED <<exit_vars, interrupt_phase>>
       \/ LeaveInterrupted("grace_sleep") /\ UNCHANGED graced
    /\ UNCHANGED <<failure_phase, fetch_outcome, current_qbit_version,
                   validated_version, gate_branch, ffprobe_outcome, managed_objects,
                   loop_vars, handle_vars, probe_vars>>

\* mutant of Construct: no handler around the FFprobe update, its Exception ends
\* the process
ConstructFFprobeFatal ==
    /\ pc = "construct"
    /\ \/ /\ ffprobe_outcome' = "ok"
          /\ pc' = "build_arr_instances"
          /\ UNCHANGED <<exit_vars, interrupt_phase, failure_phase>>
       \/ /\ ffprobe_outcome' = "failed"
          /\ failure_phase' = "ffprobe"
          /\ Leave(1, "uncaught_exception")
          /\ UNCHANGED interrupt_phase
       \/ /\ LeaveInterrupted("construct")
          /\ UNCHANGED <<ffprobe_outcome, failure_phase>>
    /\ expiring_bool' = EmptyExpiringSet
    /\ should_delay_torrent_scan' = FALSE
    /\ child_processes' = <<>>
    /\ UNCHANGED <<fetch_outcome, current_qbit_version,
                   validated_version, gate_branch, graced, managed_objects,
                   agg, procs, CHILD_PROCESSES, registry_assigned, idx,
                   handle_vars, now, backend, net_calls, last, last_success,
                   down_since>>

\* lines 67-78: the caches, the flag, child_processes = [] and the FFprobe update,
\* whose Exception is logged and dropped; a KeyboardInterrupt is not an Exception
Construct ==
    /\ pc = "construct"
    /\ \/ /\ \E outcome \in {"ok", "failed"} : ffprobe_outcome' = outcome
          /\ expiring_bool' = EmptyExpiringSet
          /\ should_delay_torrent_scan' = FALSE
          /\ child_processes' = <<>>
          /\ pc' = "build_arr_instances"
          /\ UNCHANGED <<exit_vars, interrupt_phase>>
       \/ /\ LeaveInterrupted("construct")
          /\ UNCHANGED <<ffprobe_outcome, expiring_bool, should_delay_torrent_scan,
                         child_processes>>
    /\ UNCHANGED <<failure_phase, fetch_outcome, current_qbit_version,
                   validated_version, gate_branch, graced, managed_objects,
                   agg, procs, CHILD_PROCESSES, registry_assigned, idx,
                   handle_vars, now, backend, net_calls, last, last_success,
                   down_since>>

\* line 79: ArrManager(self).build_arr_instances(); nothing catches what it raises
BuildArrInstances ==
    /\ pc = "build_arr_instances"
    /\ \/ /\ \E c \in Configurations : managed_objects' = c
          /\ pc' = "aggregate"
          /\ UNCHANGED <<exit_vars, interrupt_phase, failure_phase>>
       \/ /\ failure_phase' = "construction"
          /\ Leave(1, "uncaught_exception")
          /\ UNCHANGED <<managed_objects, interrupt_phase>>
       \/ /\ LeaveInterrupted("build_arr_instances")
          /\ UNCHANGED <<managed_objects, failure_phase>>
    /\ UNCHANGED <<fetch_outcome, current_qbit_version, validated_version, gate_branch,
                   graced, ffprobe_outcome, loop_vars, handle_vars, probe_vars>>

----------------------------------------------------------------------------
(* get_child_processes, lines 130-139 *)

\* arr.spawn_child_processes() of qBitrr/arss.py: the category's n new handles,
\* created and not started; handles are numbered in the order they are created
spawn_child_processes(n, first) == [i \in 1..n |-> first + i - 1]

\* arr.spawn_child_processes() also hands each new handle to the manager it was
\* built with: the collection qBitManager.run iterates
RegisterWithManager(list, new) == list \o new

\* lines 135-138, one pass of the loop; an Exception lands in run()'s handler at
\* line 168, a KeyboardInterrupt in the one at line 165 (sys.exit(0))
SpawnChildProcesses ==
    /\ pc = "aggregate"
    /\ agg <= Len(managed_objects)
    /\ \/ LET new == spawn_child_processes(managed_objects[agg],
                                           Cardinality({h \in HandleIds :
                                                          handles[h] # "absent"}) + 1)
          IN /\ handles' = [h \in HandleIds |->
                              IF h \in Range(new) THEN "created" ELSE handles[h]]
             /\ procs' = procs \o new
             /\ child_processes' = RegisterWithManager(child_processes, new)
             /\ agg' = agg + 1
             /\ UNCHANGED <<pc, exit_vars, interrupt_phase, failure_phase>>
       \/ /\ failure_phase' = "aggregate"
          /\ pc' = "kill_children"
          /\ UNCHANGED <<exit_vars, interrupt_phase, handles, procs, child_processes,
                         agg>>
       \/ /\ interrupt_phase = "none"
          /\ interrupt_phase' = "aggregate"
          /\ Leave(0, "interrupt")
          /\ UNCHANGED <<failure_phase, handles, procs, child_processes, agg>>
    /\ UNCHANGED <<manager_vars, CHILD_PROCESSES, registry_assigned, idx,
                   start_log, join_log, signal_log, hook_runs, probe_vars>>

\* mutant of GetChildProcessesReturn: without the global statement of line 155 the
\* assignment of line 163 binds a local name and the registry stays empty
GetChildProcessesReturnLocal ==
    /\ pc = "aggregate"
    /\ agg > Len(managed_objects)
    /\ registry_assigned' = TRUE
    /\ idx' = 1
    /\ pc' = "start"
    /\ UNCHANGED <<exit_vars, interrupt_phase, failure_phase, manager_vars, agg, procs,
                   child_processes, CHILD_PROCESSES, handle_vars, probe_vars>>

\* line 139 and the assignment of line 163: CHILD_PROCESSES = the returned list
GetChildProcessesReturn ==
    /\ pc = "aggregate"
    /\ agg > Len(managed_objects)
    /\ CHILD_PROCESSES' = procs
    /\ registry_assigned' = TRUE
    /\ idx' = 1
    /\ pc' = "start"
    /\ UNCHANGED <<exit_vars, interrupt_phase, failure_phase, manager_vars, agg, procs,
                   child_processes, handle_vars, probe_vars>>

\* lines 168-171: the handler of Exception kills manager.child_processes, then run()
\* returns and the main module ends (status 0); an exception raised by kill()
\* inside the handler is caught by nothing (status 1)
KillChildren ==
    /\ pc = "kill_children"
    /\ LET st == KillEach(child_processes, 1,
                          [handles |-> handles, log |-> signal_log, raised |-> FALSE])
       IN /\ handles' = st.handles
          /\ signal_log' = st.log
          /\ IF st.raised THEN Leave(1, "uncaught_exception")
             ELSE Leave(0, "handled_failure")
    /\ UNCHANGED <<interrupt_phase, failure_phase, manager_vars, loop_vars,
                   start_log, join_log, hook_runs, probe_vars>>

----------------------------------------------------------------------------
(* qBitManager.run, lines 141-151 *)

\* line 144, one start(): it succeeds, or raises (sys.exit(1) at line 151), or a
\* KeyboardInterrupt arrives (sys.exit(0) at line 148)
StartChild ==
    /\ pc = "start"
    /\ idx <= Len(child_processes)
    /\ \/ /\ handles[child_processes[idx]] = "created"
          /\ handles' = [handles EXCEPT ![child_processes[idx]] = "running"]
          /\ start_log' = Append(start_log, child_processes[idx])
          /\ idx' = idx + 1
          /\ UNCHANGED <<pc, exit_vars, interrupt_phase, failure_phase>>
       \/ /\ failure_phase' = "start"
          /\ Leave(1, "run_failure")
          /\ UNCHANGED <<interrupt_phase, handles, start_log, idx>>
       \/ /\ interrupt_phase = "none"
          /\ interrupt_phase' = "start"
          /\ Leave(0, "interrupt")
          /\ UNCHANGED <<failure_phase, handles, start_log, idx>>
    /\ UNCHANGED <<manager_vars, agg, procs, child_processes, CHILD_PROCESSES,
                   registry_assigned, join_log, signal_log, hook_runs, probe_vars>>

\* mutant of StartsDone: the joins begin as soon as one handle has been started
StartsDoneEarly ==
    /\ pc = "start"
    /\ idx > 1 \/ idx > Len(child_processes)
    /\ pc' = "join"
    /\ idx' = 1
    /\ UNCHANGED <<exit_vars, interrupt_phase, failure_phase, manager_vars, agg, procs,
                   child_processes, CHILD_PROCESSES, registry_assigned, handle_vars,
                   probe_vars>>

\* line 144 is through: line 145 begins
StartsDone ==
    /\ pc = "start"
    /\ idx > Len(child_processes)
    /\ pc' = "join"
    /\ idx' = 1
    /\ UNCHANGED <<exit_vars, interrupt_phase, failure_phase, manager_vars, agg, procs,
                   child_processes, CHILD_PROCESSES, registry_assigned, handle_vars,
                   probe_vars>>

\* mutant of Completed: join() returns without waiting for the worker
CompletedOrNot(hs, h) == TRUE

\* join() returns once the worker is no longer running
Completed(hs, h) == hs[h] \in {"exited", "crashed", "killed"}

\* mutant of JoinChild: a worker found to have ended with a non-zero status is
\* started again
JoinChildRestarts ==
    /\ pc = "join"
    /\ idx <= Len(child_processes)
    /\ \/ /\ Completed(handles, child_processes[idx])
          /\ IF handles[child_processes[idx]] = "crashed"
             THEN /\ handles' = [handles EXCEPT ![child_processes[idx]] = "running"]
                  /\ start_log' = Append(start_log, child_processes[idx])
                  /\ UNCHANGED <<join_log, idx>>
             ELSE /\ join_log' = Append(join_log, child_processes[idx])
                  /\ idx' = idx + 1
                  /\ UNCHANGED <<handles, start_log>>
          /\ UNCHANGED <<pc, exit_vars, interrupt_phase, failure_phase>>
       \/ /\ failure_phase' = "join"
          /\ Leave(1, "run_failure")
          /\ UNCHANGED <<interrupt_phase, join_log, idx, handles, start_log>>
       \/ /\ interrupt_phase = "none"
          /\ interrupt_phase' = "join"
          /\ Leave(0, "interrupt")
          /\ UNCHANGED <<failure_phase, join_log, idx, handles, start_log>>
    /\ UNCHANGED <<manager_vars, agg, procs, child_processes, CHILD_PROCESSES,
                   registry_assigned, signal_log, hook_runs, probe_vars>>

\* line 145, one join(): it blocks until the worker has completed, or raises, or a
\* KeyboardInterrupt arrives while it blocks
JoinChild ==
    /\ pc = "join"
    /\ idx <= Len(child_processes)
    /\ \/ /\ Completed(handles, child_processes[idx])
          /\ join_log' = Append(join_log, child_processes[idx])
          /\ idx' = idx + 1
          /\ UNCHANGED <<pc, exit_vars, interrupt_phase, failure_phase>>
       \/ /\ failure_phase' = "join"
          /\ Leave(1, "run_failure")
          /\ UNCHANGED <<interrupt_phase, join_log, idx>>
       \/ /\ interrupt_phase = "none"
          /\ interrupt_phase' = "join"
          /\ Leave(0, "interrupt")
          /\ UNCHANGED <<failure_phase, join_log, idx>>
    /\ UNCHANGED <<manager_vars, agg, procs, child_processes, CHILD_PROCESSES,
                   registry_assigned, handles, start_log, signal_log, hook_runs,
                   probe_vars>>

\* line 145 is through: qBitManager.run returns, run() returns, the main module ends
ManagerRunReturn ==
    /\ pc = "join"
    /\ idx > Len(child_processes)
    /\ Leave(0, "normal_return")
    /\ UNCHANGED <<interrupt_phase, failure_phase, manager_vars, loop_vars,
                   handle_vars, probe_vars>>

----------------------------------------------------------------------------
(* cleanup, lines 174-180, and the workers *)

\* the atexit hook: an exception raised by kill() ends the hook, and the
\* interpreter exits with the status it already had
Cleanup ==
    /\ pc = "atexit"
    /\ LET st == CleanupEach(CHILD_PROCESSES, 1,
                             [handles |-> handles, log |-> signal_log, raised |-> FALSE])
       IN /\ handles' = st.handles
          /\ signal_log' = st.log
          /\ hook_runs' = Append(hook_runs, IF st.raised THEN "raised" ELSE "completed")
    /\ pc' = "exited"
    /\ UNCHANGED <<exit_vars, interrupt_phase, failure_phase, manager_vars, loop_vars,
                   start_log, join_log, probe_vars>>

\* a worker process ends by itself, with status 0 or with another one, whatever
\* the supervising process is doing
WorkerExit(h) ==
    /\ handles[h] = "running"
    /\ \E how \in {"exited", "crashed"} : handles' = [handles EXCEPT ![h] = how]
    /\ UNCHANGED <<supervisor_vars, start_log, join_log, signal_log, hook_runs,
                   probe_vars>>

Next ==
    \/ ProcessFlags
    \/ FetchVersion
    \/ VersionValidator
    \/ GraceSleep
    \/ Construct
    \/ BuildArrInstances
    \/ SpawnChildProcesses
    \/ GetChildProcessesReturn
    \/ KillChildren
    \/ StartChild
    \/ StartsDone
    \/ JoinChild
    \/ ManagerRunReturn
    \/ Cleanup
    \/ \E h \in HandleIds : WorkerExit(h)

Spec == Init /\ [][Next]_vars

----------------------------------------------------------------------------
(* cleanup() as a function of the registry it is given *)

\* cleanup() called again after it has run (lines 174-177 once more)
CleanupAgain ==
    /\ pc = "exited"
    /\ Len(hook_runs) < MaxHookRuns
    /\ LET st == CleanupEach(CHILD_PROCESSES, 1,
                             [handles |-> handles, log |-> signal_log, raised |-> FALSE])
       IN /\ handles' = st.handles
          /\ signal_log' = st.log
          /\ hook_runs' = Append(hook_runs, IF st.raised THEN "raised" ELSE "completed")
    /\ UNCHANGED <<supervisor_vars, start_log, join_log, probe_vars>>

\* the interpreter is about to run the hook on a registry of n handles, each of
\* them never started, running or already stopped
HookInit ==
    /\ pc = "atexit"
    /\ exit_status = <<0>>
    /\ exit_cause = "interrupt"
    /\ interrupt_phase = "join"
    /\ failure_phase = "none"
    /\ fetch_outcome = "ok"
    /\ current_qbit_version = min_supported_version
    /\ validated_version = TRUE
    /\ gate_branch = "supported"
    /\ graced = FALSE
    /\ ffprobe_outcome = "ok"
    /\ \E n \in 0..MaxHandles :
          /\ CHILD_PROCESSES = [i \in 1..n |-> i]
          /\ managed_objects \in {c \in Configurations : Sum(c) = n}
          /\ handles \in {hs \in [HandleIds -> {"absent", "created", "running",
                                                "exited", "crashed", "killed"}] :
                             \A h \in HandleIds : hs[h] = "absent" <=> h > n}
    /\ agg = Len(managed_objects) + 1
    /\ procs = CHILD_PROCESSES
    /\ child_processes = CHILD_PROCESSES
    /\ registry_assigned = TRUE
    /\ idx = 1
    /\ start_log = SelectSeq(CHILD_PROCESSES, LAMBDA h : ~NeverStarted(handles, h))
    /\ join_log = <<>>
    /\ signal_log = <<>>
    /\ hook_runs = <<>>
    /\ now = 0
    /\ expiring_bool = EmptyExpiringSet
    /\ should_delay_torrent_scan = FALSE
    /\ backend = "up"
    /\ net_calls = 0
    /\ last = NoEvaluation
    /\ last_success = <<>>
    /\ down_since = <<>>

HookNext ==
    \/ Cleanup
    \/ CleanupAgain
    \/ \E h \in HandleIds : WorkerExit(h)

HookSpec == HookInit /\ [][HookNext]_vars

----------------------------------------------------------------------------
(* The liveness probe: qBitManager.is_alive, lines 116-128 *)

\* ExpiringSet(max_age_seconds=10), line 67
max_age_seconds == 10

\* the key is_alive looks up and adds, lines 119 and 123
Sentinel == 1

\* ExpiringSet.add of qBitrr/utils.py at time t: the key expires one
\* time-to-live after its insertion
ExpiringSetAdd(set, key, t) ==
    [k \in DOMAIN set \cup {key} |-> IF k = key THEN t + max_age_seconds ELSE set[k]]

\* ExpiringSet.__contains__ at time t: a key is present iff t < its expiry
ExpiringSetContains(set, key, t) == key \in DOMAIN set /\ t < set[key]

\* mutant of is_alive: the cache is not consulted
is_alive_uncached(cache, delay, b, t) ==
    IF b = "up"
    THEN [ret |-> "true", cache |-> ExpiringSetAdd(cache, Sentinel, t),
          delay |-> delay, called |-> TRUE]
    ELSE IF b = "down"
    THEN [ret |-> "false", cache |-> cache, delay |-> TRUE, called |-> TRUE]
    ELSE [ret |-> "raised", cache |-> cache, delay |-> delay, called |-> TRUE]

\* mutant of is_alive: the flag is set on the success path instead of the failure path
is_alive_flag_misplaced(cache, delay, b, t) ==
    IF ExpiringSetContains(cache, Sentinel, t)
    THEN [ret |-> "true", cache |-> cache, delay |-> delay, called |-> FALSE]
    ELSE IF b = "up"
    THEN [ret |-> "true", cache |-> ExpiringSetAdd(cache, Sentinel, t),
          delay |-> TRUE, called |-> TRUE]
    ELSE IF b = "down"
    THEN [ret |-> "false", cache |-> cache, delay |-> delay, called |-> TRUE]
    ELSE [ret |-> "raised", cache |-> cache, delay |-> delay, called |-> TRUE]

\* mutant of is_alive: the handler catches every Exception
is_alive_catch_all(cache, delay, b, t) ==
    IF ExpiringSetContains(cache, Sentinel, t)
    THEN [ret |-> "true", cache |-> cache, delay |-> delay, called |-> FALSE]
    ELSE IF b = "up"
    THEN [ret |-> "true", cache |-> ExpiringSetAdd(cache, Sentinel, t),
          delay |-> delay, called |-> TRUE]
    ELSE [ret |-> "false", cache |-> cache, delay |-> TRUE, called |-> TRUE]

\* mutant of is_alive: a successful probe clears the flag
is_alive_clears_flag(cache, delay, b, t) ==
    IF ExpiringSetContains(cache, Sentinel, t)
    THEN [ret |-> "true", cache |-> cache, delay |-> delay, called |-> FALSE]
    ELSE IF b = "up"
    THEN [ret |-> "true", cache |-> ExpiringSetAdd(cache, Sentinel, t),
          delay |-> FALSE, called |-> TRUE]
    ELSE IF b = "down"
    THEN [ret |-> "false", cache |-> cache, delay |-> TRUE, called |-> TRUE]
    ELSE [ret |-> "raised", cache |-> cache, delay |-> delay, called |-> TRUE]

\* mutant of is_alive: a cache hit adds the sentinel again
is_alive_refreshes_on_hit(cache, delay, b, t) ==
    IF ExpiringSetContains(cache, Sentinel, t)
    THEN [ret |-> "true", cache |-> ExpiringSetAdd(cache, Sentinel, t),
          delay |-> delay, called |-> FALSE]
    ELSE IF b = "up"
    THEN [ret |-> "true", cache |-> ExpiringSetAdd(cache, Sentinel, t),
          delay |-> delay, called |-> TRUE]
    ELSE IF b = "down"
    THEN [ret |-> "false", cache |-> cache, delay |-> TRUE, called |-> TRUE]
    ELSE [ret |-> "raised", cache |-> cache, delay |-> delay, called |-> TRUE]

\* mutant of is_alive: the sentinel is added before the call, so also when it fails
is_alive_caches_failure(cache, delay, b, t) ==
    IF ExpiringSetContains(cache, Sentinel, t)
    THEN [ret |-> "true", cache |-> cache, delay |-> delay, called |-> FALSE]
    ELSE IF b = "up"
    THEN [ret |-> "true", cache |-> ExpiringSetAdd(cache, Sentinel, t),
          delay |-> delay, called |-> TRUE]
    ELSE IF b = "down"
    THEN [ret |-> "false", cache |-> ExpiringSetAdd(cache, Sentinel, t),
          delay |-> TRUE, called |-> TRUE]
    ELSE [ret |-> "raised", cache |-> ExpiringSetAdd(cache, Sentinel, t),
          delay |-> delay, called |-> TRUE]

\* is_alive evaluated at time t on the cache and the flag, the backend being in
\* state b: what it returns ("raised" when an exception leaves it), the cache and
\* the flag it leaves, and whether it called the control API.
\*   "up":     client.app_version() returns
\*   "down":   it raises a requests.RequestException
\*   "faulty": it raises an exception of another class
is_alive(cache, delay, b, t) ==
    IF ExpiringSetContains(cache, Sentinel, t)
    THEN [ret |-> "true", cache |-> cache, delay |-> delay, called |-> FALSE]
    ELSE IF b = "up"
    THEN [ret |-> "true", cache |-> ExpiringSetAdd(cache, Sentinel, t),
          delay |-> delay, called |-> TRUE]
    ELSE IF b = "down"
    THEN [ret |-> "false", cache |-> cache, delay |-> TRUE, called |-> TRUE]
    ELSE [ret |-> "raised", cache |-> cache, delay |-> delay, called |-> TRUE]

\* one evaluation of the property
IsAlive ==
    LET r == is_alive(expiring_bool, should_delay_torrent_scan, backend, now)
    IN /\ r.called => net_calls < MaxCalls
       /\ expiring_bool' = r.cache
       /\ should_delay_torrent_scan' = r.delay
       /\ net_calls' = IF r.called THEN net_calls + 1 ELSE net_calls
       /\ last' = [ret |-> r.ret, at |-> now, met |-> backend,
                   cache_before |-> expiring_bool,
                   delay_before |-> should_delay_torrent_scan,
                   calls_before |-> net_calls,
                   success_before |-> last_success,
                   down_before |-> down_since]
       /\ last_success' = IF r.called /\ r.ret = "true" THEN <<now>> ELSE last_success
       /\ UNCHANGED <<supervisor_vars, handle_vars, now, backend, down_since>>

\* a second passes
Tick ==
    /\ now < MaxTime
    /\ now' = now + 1
    /\ UNCHANGED <<supervisor_vars, handle_vars, expiring_bool,
                   should_delay_torrent_scan, backend, net_calls, last, last_success,
                   down_since>>

\* the backend becomes reachable, unreachable, or answers wrongly
BackendChange ==
    /\ \E b \in {"up", "down", "faulty"} \ {backend} : backend' = b
    /\ down_since' = IF backend' = "up" THEN <<>>
                     ELSE IF backend = "up" THEN <<now>>
                     ELSE down_since
    /\ UNCHANGED <<supervisor_vars, handle_vars, now, expiring_bool,
                   should_delay_torrent_scan, net_calls, last, last_success>>

\* the manager as its constructor leaves it (lines 34-80) on a supported backend
ProbeInit ==
    /\ pc = "aggregate"
    /\ exit_status = <<>>
    /\ exit_cause = "none"
    /\ interrupt_phase = "none"
    /\ failure_phase = "none"
    /\ fetch_outcome = "ok"
    /\ current_qbit_version = min_supported_version
    /\ validated_version = TRUE
    /\ gate_branch = "supported"
    /\ graced = FALSE
    /\ ffprobe_outcome = "ok"
    /\ managed_objects = <<>>
    /\ agg = 1
    /\ procs = <<>>
    /\ child_processes = <<>>
    /\ CHILD_PROCESSES = <<>>
    /\ registry_assigned = FALSE
    /\ idx = 1
    /\ handles = [h \in HandleIds |-> "absent"]
    /\ start_log = <<>>
    /\ join_log = <<>>
    /\ signal_log = <<>>
    /\ hook_runs = <<>>
    /\ now = 0
    /\ expiring_bool = EmptyExpiringSet
    /\ should_delay_torrent_scan = FALSE
    /\ backend \in {"up", "down", "faulty"}
    /\ net_calls = 0
    /\ last = NoEvaluation
    /\ last_success = <<>>
    /\ down_since = IF backend = "up" THEN <<>> ELSE <<0>>

ProbeNext ==
    \/ IsAlive
    \/ Tick
    \/ BackendChange

ProbeSpec == ProbeInit /\ [][ProbeNext]_vars

----------------------------------------------------------------------------
(* Properties *)

\* the supervising process has exited
Exited == pc = "exited"

\* the handles of the registry
Registry == Range(CHILD_PROCESSES)

\* C1: on every exit path the shutdown hook runs and issues kill and terminate on
\* every handle of the process registry, and once the supervising process has
\* exited no worker that was started is still running.
C1_HookStopsEveryHandle ==
    Exited =>
        /\ Len(hook_runs) = 1
        /\ \A h \in Registry :
              /\ <<"kill", h>> \in Range(signal_log)
              /\ <<"terminate", h>> \in Range(signal_log)
        /\ \A h \in HandleIds : handles[h] # "running"

\* C2: every handle get_child_processes returned has been started by
\* qBitManager.run once its start loop is through, and run returns normally only
\* after every one of them has been joined and has completed.
C2_RunStartsAndJoinsAll ==
    /\ pc = "join" => \A h \in Registry : h \in Range(start_log)
    /\ exit_cause = "normal_return" =>
          \A h \in Registry :
             /\ h \in Range(start_log)
             /\ h \in Range(join_log)
             /\ handles[h] # "running"

C2_Witness ==
    /\ exit_cause = "normal_return"
    /\ Len(CHILD_PROCESSES) >= 2
    /\ Len(join_log) = Len(CHILD_PROCESSES)

\* a release as one number: its components, padded with zeros to MaxReleaseLen,
\* read as the digits of a number in base MaxComponent + 1
RECURSIVE AsNumber(_, _)
AsNumber(v, i) ==
    IF i > MaxReleaseLen THEN 0
    ELSE (IF i <= Len(v) THEN v[i] ELSE 0) * (MaxComponent + 1) ^ (MaxReleaseLen - i)
         + AsNumber(v, i + 1)

\* the version gate let construction continue
GateContinued == gate_branch \in {"supported", "assumed"}

\* C3: for every observed version v the version gate lets construction continue
\* iff min_supported <= v <= max_supported, both ends included, and for every v
\* outside the range it ends the process with exit status 1.
C3_GateInclusiveRange ==
    gate_branch # "none" =>
        /\ GateContinued <=>
              /\ AsNumber(min_supported_version, 1) <= AsNumber(current_qbit_version, 1)
              /\ AsNumber(current_qbit_version, 1) <= AsNumber(max_supported_version, 1)
        /\ GateContinued => exit_cause # "version_gate"
        /\ ~GateContinued => exit_status = <<1>> /\ exit_cause = "version_gate"

C3_Witness ==
    /\ gate_branch = "supported"
    /\ current_qbit_version = max_supported_version
    /\ pc = "construct"

\* C4: the exit status is 1 for every unexpected top-level failure, raised while
\* aggregating the worker handles or while starting or joining them, and 0 when
\* all workers complete normally.
C4_FailureExitsWithStatusOne ==
    /\ failure_phase \in {"aggregate", "start", "join"} /\ exit_status # <<>>
          => exit_status = <<1>>
    /\ exit_cause = "normal_return" => exit_status = <<0>>

\* C5: an interrupt delivered to the supervising process, in whichever phase it
\* arrives, makes the process exit with status 0.
C5_InterruptExitsWithStatusZero ==
    interrupt_phase # "none" => exit_status = <<0>>

\* C6: when the version gate rejects a version, the process exits with status 1
\* and no worker handle has been or will be created, registered or started.
C6_GateExitBeforeAnyWorker ==
    gate_branch = "fatal" =>
        /\ pc \in {"atexit", "exited"}
        /\ exit_status = <<1>>
        /\ \A h \in HandleIds : handles[h] = "absent"
        /\ child_processes = <<>>
        /\ CHILD_PROCESSES = <<>>
        /\ start_log = <<>>

C6_Witness ==
    /\ gate_branch = "fatal"
    /\ Exited
    /\ hook_runs = <<"completed">>

\* C7: when fetching or parsing the backend version fails, the version is the
\* minimum supported one and is marked not validated, the gate takes its
\* non-validated branch (the grace pause, then construction continues) and does
\* not end the process; the validated flag is true only after a successful fetch.
C7_FetchFailureDegrades ==
    /\ validated_version => fetch_outcome = "ok"
    /\ fetch_outcome = "failed" =>
          /\ current_qbit_version = min_supported_version
          /\ ~validated_version
          /\ pc = "version_validator" => exit_status = <<>>
          /\ pc # "version_validator" =>
                /\ gate_branch = "assumed"
                /\ exit_cause # "version_gate"
                /\ pc = "grace_sleep" \/ graced \/ interrupt_phase = "grace_sleep"

C7_Witness ==
    /\ fetch_outcome = "failed"
    /\ gate_branch = "assumed"
    /\ graced
    /\ pc = "build_arr_instances"

\* the sentinel was present and unexpired when is_alive was last evaluated
SentinelLiveBefore ==
    /\ Sentinel \in DOMAIN last.cache_before
    /\ last.at < last.cache_before[Sentinel]

\* C8: if the sentinel is present and unexpired when is_alive is evaluated,
\* is_alive returns true and the count of control-API calls is unchanged.
C8_CacheHitIssuesNoCall ==
    last.ret # "none" /\ SentinelLiveBefore =>
        /\ last.ret = "true"
        /\ net_calls = last.calls_before

C8_Witness ==
    /\ last.ret = "true"
    /\ SentinelLiveBefore
    /\ last.met = "down"
    /\ last.calls_before > 0

\* C9: if the sentinel is absent or expired and the control-API call fails with a
\* network-layer error, is_alive returns false (it raises nothing), the
\* delay-scan flag is true and the sentinel has not been inserted.
C9_NetworkFailureDelaysScan ==
    last.ret # "none" /\ ~SentinelLiveBefore /\ last.met = "down" =>
        /\ last.ret = "false"
        /\ should_delay_torrent_scan
        /\ expiring_bool = last.cache_before
        /\ net_calls = last.calls_before + 1

C9_Witness ==
    /\ last.ret = "false"
    /\ ~last.delay_before
    /\ Sentinel \in DOMAIN last.cache_before
    /\ should_delay_torrent_scan

\* C10: if the control-API call fails with an exception that is not a
\* network-layer error, the exception reaches the caller of is_alive and neither
\* the delay-scan flag nor the liveness cache is changed.
C10_OtherFailurePropagates ==
    last.ret # "none" /\ ~SentinelLiveBefore /\ last.met = "faulty" =>
        /\ last.ret = "raised"
        /\ should_delay_torrent_scan = last.delay_before
        /\ expiring_bool = last.cache_before

C10_Witness ==
    /\ last.ret = "raised"
    /\ ~last.delay_before
    /\ Sentinel \in DOMAIN last.cache_before


\* C11: the liveness probe never resets the delay-scan flag: no step takes the
\* flag from true to false, and an evaluation of is_alive that returns true
\* (a successful probe or a cache hit) leaves the flag as it was.
C11_FlagNeverReset ==
    [][/\ should_delay_torrent_scan => should_delay_torrent_scan'
       /\ IsAlive /\ last'.ret = "true" => UNCHANGED should_delay_torrent_scan]_vars

C11_Witness ==
    /\ last.ret = "true"
    /\ last.delay_before
    /\ should_delay_torrent_scan
    /\ last.met = "up"
    /\ ~SentinelLiveBefore


\* what one complete run of cleanup() issues on a registry: kill, then terminate,
\* handle after handle in registry order
RECURSIVE ExpectedSignals(_)
ExpectedSignals(list) ==
    IF list = <<>> THEN <<>>
    ELSE << <<"kill", list[1]>>, <<"terminate", list[1]>> >> \o ExpectedSignals(Tail(list))

RECURSIVE Repeated(_, _)
Repeated(list, n) == IF n = 0 THEN <<>> ELSE list \o Repeated(list, n - 1)

\* every handle of the registry has been started (it runs or is already stopped)
RegistryStarted == \A h \in Registry : ~NeverStarted(handles, h)

\* C12: on a registry (possibly empty) of handles that run or are already
\* stopped, every invocation of the shutdown hook, the first and the ones after
\* it, completes without raising, issues kill and then terminate on every handle
\* in registry order, and leaves every handle stopped.
C12_HookTwiceOnStartedHandles ==
    RegistryStarted =>
        /\ \A i \in 1..Len(hook_runs) : hook_runs[i] = "completed"
        /\ signal_log = Repeated(ExpectedSignals(CHILD_PROCESSES), Len(hook_runs))
        /\ Len(hook_runs) >= 1 =>
              \A h \in Registry : handles[h] \in {"exited", "crashed", "killed"}

C12_Witness ==
    /\ Len(hook_runs) = 2
    /\ Len(CHILD_PROCESSES) >= 2
    /\ RegistryStarted
    /\ \E h \in Registry : handles[h] = "killed"
    /\ \E h \in Registry : handles[h] \in {"exited", "crashed"}


\* line 79, ArrManager(self).build_arr_instances(), has been reached: the process
\* is at it or past it, or it left the process through what line 79 or a later
\* step raised
BuildReached ==
    \/ pc \in {"build_arr_instances", "aggregate", "kill_children", "start", "join"}
    \/ /\ pc \in {"atexit", "exited"}
       /\ \/ failure_phase \in {"construction", "aggregate", "start", "join"}
          \/ interrupt_phase \in {"build_arr_instances", "aggregate", "start", "join"}
          \/ exit_cause = "normal_return"

\* C13: a failure of the FFprobe update never aborts the construction of the
\* manager: after it, construction is at the building of the managed worker
\* definitions (line 79) or past it.
C13_FFprobeFailureIsolated ==
    ffprobe_outcome = "failed" => BuildReached

C13_Witness ==
    /\ ffprobe_outcome = "failed"
    /\ pc = "aggregate"
    /\ Len(managed_objects) >= 1


\* list a is list b or a beginning of it
IsPrefix(a, b) == Len(a) <= Len(b) /\ a = SubSeq(b, 1, Len(a))

\* C14: get_child_processes produces the handles category after category, in the
\* iteration order of the configuration; run() starts them in that order, joins
\* none before all have been started, and joins them in the order of the starts.
C14_StartAndJoinOrder ==
    /\ pc = "aggregate" =>
          /\ Len(procs) = Sum(SubSeq(managed_objects, 1, agg - 1))
          /\ procs = [i \in 1..Len(procs) |-> i]
    /\ registry_assigned => IsPrefix(start_log, CHILD_PROCESSES)
    /\ join_log # <<>> => start_log = CHILD_PROCESSES
    /\ IsPrefix(join_log, start_log)

C14_Witness ==
    /\ Len(managed_objects) = 2
    /\ managed_objects[1] >= 1
    /\ managed_objects[2] >= 1
    /\ Len(join_log) >= 2
    /\ handles[join_log[2]] = "exited"
    /\ handles[join_log[1]] = "crashed"


\* the worker of handle h has ended or has been stopped
Ended(h) == handles[h] \in {"exited", "crashed", "killed"}

\* C15: the supervisor never restarts a worker: every handle is started at most
\* once, a worker that has ended is never running again, and qBitManager.run
\* returns (status 0) once every worker has ended, whatever status each ended with.
C15_NoRestart ==
    /\ [](/\ \A i, j \in 1..Len(start_log) : start_log[i] = start_log[j] => i = j
          /\ \A h \in HandleIds : handles[h] = "running" \/ Ended(h)
                                     => h \in Range(start_log)
          /\ exit_cause = "normal_return" =>
                /\ exit_status = <<0>>
                /\ join_log = child_processes
                /\ \A h \in Range(child_processes) : Ended(h))
    /\ [][\A h \in HandleIds : Ended(h) => Ended(h)']_vars

C15_Witness ==
    /\ exit_cause = "normal_return"
    /\ Len(start_log) >= 2
    /\ \E h \in Range(child_processes) : handles[h] = "crashed"
    /\ \E h \in Range(child_processes) : handles[h] = "exited"


\* the last evaluation of is_alive called the control API
CalledLast == net_calls = last.calls_before + 1

\* C16: after a successful probe at time t the sentinel is in the cache with
\* expiry t + TTL; an evaluation before t + TTL returns true without a network
\* call and leaves the expiry as it is, one at or after t + TTL issues a call.
C16_HitsUntilExpiry ==
    /\ last_success # <<>> <=> Sentinel \in DOMAIN expiring_bool
    /\ last_success # <<>> =>
          expiring_bool[Sentinel] = last_success[1] + max_age_seconds
    /\ last.ret # "none" /\ last.success_before # <<>> =>
          IF last.at < last.success_before[1] + max_age_seconds
          THEN /\ last.ret = "true"
               /\ net_calls = last.calls_before
               /\ expiring_bool = last.cache_before
          ELSE CalledLast

C16_Witness ==
    /\ last.success_before # <<>>
    /\ last.at = last.success_before[1] + max_age_seconds
    /\ last.ret = "true"
    /\ CalledLast
    /\ last_success = <<last.at>>


\* C17: every handle that has been started is in the registry the shutdown hook
\* iterates: the registry is assigned before the first start, and from then on
\* the handles qBitManager.run starts (child_processes) are all in it.
C17_StartedHandlesRegistered ==
    /\ \A h \in HandleIds : handles[h] = "running" \/ Ended(h) => h \in Registry
    /\ Range(start_log) \subseteq Registry
    /\ start_log # <<>> => registry_assigned
    /\ pc \in {"start", "join"} => registry_assigned
    /\ registry_assigned => Range(child_processes) \subseteq Registry

C17_Witness ==
    /\ pc = "join"
    /\ Len(start_log) >= 2
    /\ \E h \in Registry : handles[h] = "running"

\* C18: is_alive returns true only if its call succeeded during that evaluation
\* or less than one TTL before it; it does not return true once the backend has
\* been unreachable for a full TTL; a failed probe leaves the cache as it was, and
\* an evaluation issues no call only on a sentinel of an earlier success that is
\* less than one TTL old.
C18_BoundedStaleness ==
    last.ret # "none" =>
        /\ last.ret = "true" =>
              \/ CalledLast /\ last.met = "up"
              \/ /\ last.success_before # <<>>
                 /\ last.at - last.success_before[1] < max_age_seconds
        /\ last.down_before # <<>> /\ last.at - last.down_before[1] >= max_age_seconds
              => last.ret # "true"
        /\ last.ret \in {"false", "raised"} =>
              /\ CalledLast
              /\ expiring_bool = last.cache_before
        /\ ~CalledLast =>
              /\ net_calls = last.calls_before
              /\ last.success_before # <<>>
              /\ last.at < last.success_before[1] + max_age_seconds

C18_Witness ==
    /\ last.ret = "false"
    /\ last.success_before # <<>>
    /\ last.down_before # <<>>
    /\ last.at - last.down_before[1] >= max_age_seconds
    /\ last.down_before[1] > last.success_before[1]

=============================================================================
